---- MODULE Spec2Model ----
(***************************************************************************)
(* PyTide: NetworkTools/models/blip.py (Annotation, Annotations,           *)
(* BlipDocument, Contributors, Blip) and persistance/config.py (Config,    *)
(* ConfigRW).                                                              *)
(*                                                                         *)
(* The state machines of this module:                                      *)
(*   Spec         one Annotations object: its set _data of Annotation      *)
(*                objects and the handlers resolve(), annotate() and       *)
(*                _resolve_pair().                                         *)
(*   SpecDoc      one BlipDocument: the deque content, the rotation offset *)
(*                and the handlers retain, insert_characters, insert,      *)
(*                delete, fix_rotation and complete.                       *)
(*   SpecList     one Contributors list and the list methods.              *)
(*   SpecBlip     Blip(creator), then the calls on its contributors.       *)
(*   SpecCfg      one Config shared by caller threads, with the Timer and  *)
(*                ConfigRW threads it starts; SpecCfgFair is the same      *)
(*                machine with its threads scheduled fairly.               *)
(* A handler that raises leaves the state it had reached when it raised;   *)
(* the exception is recorded (exc, dexc, cexc) and the caller may go on    *)
(* calling.                                                                *)
(***************************************************************************)
EXTENDS Integers, Sequences, FiniteSets, TLC

VARIABLES
    heap,           \* the Annotation objects: id -> [start, end, name, value]
    data,           \* Annotations._data: the set's slots in iteration order,
                    \* each [key |-> object id, hash |-> the stored hash]
    pc,             \* position inside the running Annotations handler
    op,             \* the handler called last
    exc,            \* the exception the last handler call raised, or "none"
    it1,            \* slots the outer (or only) set iterator has passed
    it2,            \* slots the inner set iterator of resolve() has passed
    si1,            \* steps the outer (or only) set iterator has made
    si2,            \* steps the inner set iterator has made
    used,           \* the set size the live iterators recorded (si_used)
    annotation_1,   \* resolve(): the outer loop's variable
    annotation,     \* _add_annotation(): the local 'annotation'
    args,           \* the arguments of the last call
    pre,            \* the stored annotations' fields when the last call began
    calls,          \* handler calls made so far
    content,        \* BlipDocument: the deque, left to right
    rotation,       \* BlipDocument.rotation
    dexc,           \* the exception the last BlipDocument call raised
    base,           \* the content the document was filled with
    script,         \* the BlipDocument calls made so far, in order
    output,         \* what the last _resolve_pair or __getitem__ call returned:
                    \* the annotations' fields, in order
    contributors,   \* a Contributors list, first element first
    cpre,           \* the Contributors list when the last call on it began
    cop,            \* the last call on the Contributors list
    cexc,           \* the exception that call raised, or "none"
    creator,        \* Blip.creator, "none" while no Blip is constructed
    namespace,      \* Config.namespace
    lock,           \* Config.lock: "free", or the method that acquired it
    cfgdata,        \* Config.data: key -> value, "absent" for a missing key
    autosave_time,  \* Config.autosave_time
    autosave,       \* Config.autosave: the index of a Timer thread, 0 for None
    threads,        \* the threads: callers, Timer threads, ConfigRW threads
    file,           \* the config file
    gdk,            \* the GDK lock of threads_enter() / threads_leave()
    ncalls          \* Config calls the caller threads have made

annVars == <<heap, data, pc, op, exc, it1, it2, si1, si2, used, annotation_1,
             annotation,
             args, pre, calls>>
docVars == <<content, rotation, dexc, base, script>>
listVars == <<contributors, cpre, cop, cexc>>
blipVars == <<creator>>
cfgVars == <<namespace, lock, cfgdata, autosave_time, autosave, threads, file,
             gdk, ncalls>>
vars == <<heap, data, pc, op, exc, it1, it2, si1, si2, used, annotation_1,
          annotation,
          args, pre, calls, content, rotation, dexc, base, script, output,
          contributors, cpre, cop, cexc, creator,
          namespace, lock, cfgdata, autosave_time, autosave, threads, file,
          gdk, ncalls>>

(***************************************************************************)
(* Bounds.                                                                 *)
(***************************************************************************)
\* positions run over 0..MaxPos
MaxPos == 3
\* annotations in the set when the first handler is called
MaxInit == 2
\* handler calls on the Annotations object
MaxCalls == 2
\* the document is filled with the first 0..MaxBase of the letters A B C D ...
MaxBase == 4
\* retain and delete counts run over 0..MaxCount
MaxCount == 2
\* BlipDocument calls in a script
MaxOps == 4
\* a Contributors list holds up to MaxLen identities
MaxLen == 3
\* slots in the hash table of a set of fewer than five entries: a set
\* iterator's slot index only grows, so it yields at most this many times
TableSize == 8

Positions == 0 .. MaxPos
\* the (name, value) pairs in use
AnnKeySeq == << <<"b", "true">>, <<"i", "true">> >>
AnnKeys == {AnnKeySeq[i] : i \in 1 .. Len(AnnKeySeq)}

NoArgs == [start |-> 0, end |-> 0, name |-> "", value |-> ""]

(***************************************************************************)
(* Sequences.                                                              *)
(***************************************************************************)
RemoveAt(s, i) == SubSeq(s, 1, i - 1) \o SubSeq(s, i + 1, Len(s))

\* every order a sequence's elements can be iterated in
Orders(s) ==
    {[i \in 1 .. Len(s) |-> s[f[i]]] : f \in Permutations(1 .. Len(s))}

(***************************************************************************)
(* Annotation.                                                             *)
(***************************************************************************)
\* Annotation.__init__
NewAnnotation(start, end, name, value) ==
    [start |-> start, end |-> end, name |-> name, value |-> value]

\* Annotation.__hash__: the hash of (start, end, name, value), taken to be
\* free of collisions.
Hash(a) == <<a.start, a.end, a.name, a.value>>

\* Annotation.__eq__ on objects x (self) and y of heap h: the result and the
\* heap its assignments leave.  The assignments run in the code's order.
AnnotationEq(h, x, y) ==
    IF h[x].name = h[y].name /\ h[x].value = h[y].value
    THEN IF h[x].start <= h[y].start
         THEN IF h[x].end <= h[y].end
              THEN LET h1 == [h EXCEPT ![y].start = h[x].start]
                       h2 == [h1 EXCEPT ![x].end = h1[y].end]
                   IN [ret |-> TRUE, heap |-> h2]
              ELSE LET h1 == [h EXCEPT ![y].start = h[x].start]
                       h2 == [h1 EXCEPT ![y].end = h1[x].end]
                   IN [ret |-> TRUE, heap |-> h2]
         ELSE IF h[x].end <= h[y].end
              THEN LET h1 == [h EXCEPT ![x].start = h[y].start]
                       h2 == [h1 EXCEPT ![x].end = h1[y].end]
                   IN [ret |-> TRUE, heap |-> h2]
              ELSE LET h1 == [h EXCEPT ![x].start = h[y].start]
                       h2 == [h1 EXCEPT ![y].end = h1[x].end]
                   IN [ret |-> TRUE, heap |-> h2]
    ELSE [ret |-> FALSE, heap |-> h]

(***************************************************************************)
(* The set _data.  A slot keeps the hash its key had when it was inserted; *)
(* a lookup compares keys only in a slot whose stored hash equals the hash *)
(* looked up, by identity first and by __eq__ otherwise.  The order a set  *)
(* is iterated in depends on the hash values: it is any order when an      *)
(* iteration begins.  Between handler calls the slots are kept sorted by   *)
(* stored hash (no two slots store the same hash).                         *)
(***************************************************************************)
\* a number for each hash, to sort slots by
Rank(hsh) ==
    (hsh[1] * (MaxPos + 1) + hsh[2]) * Len(AnnKeySeq)
    + (CHOOSE i \in 1 .. Len(AnnKeySeq) : AnnKeySeq[i] = <<hsh[3], hsh[4]>>)

Canonical(d) == SortSeq(d, LAMBDA x, y : Rank(x.hash) < Rank(y.hash))

\* the slot holding stored hash hsh, or 0
SlotOf(d, hsh) ==
    IF \E i \in 1 .. Len(d) : d[i].hash = hsh
    THEN CHOOSE i \in 1 .. Len(d) : d[i].hash = hsh
    ELSE 0

\* the lookup of key k under hash hsh in st = [heap, data]: the slot found
\* (0 for none) and the heap the key comparison leaves
Lookup(st, k, hsh) ==
    LET i == SlotOf(st.data, hsh)
    IN IF i = 0 THEN [slot |-> 0, heap |-> st.heap]
       ELSE IF st.data[i].key = k THEN [slot |-> i, heap |-> st.heap]
       ELSE LET eq == AnnotationEq(st.heap, st.data[i].key, k)
            IN [slot |-> IF eq.ret THEN i ELSE 0, heap |-> eq.heap]

\* set((k1, k2, ...)): the keys ks inserted in turn into an empty set.  A key
\* whose hash is already stored has the stored key's fields, so __eq__ finds
\* it equal and changes nothing.
RECURSIVE BuildSet(_, _, _)
BuildSet(h, ks, acc) ==
    IF ks = <<>> THEN acc
    ELSE LET e == [key |-> Head(ks), hash |-> Hash(h[Head(ks)])]
         IN BuildSet(h, Tail(ks),
                     IF \E i \in 1 .. Len(acc) : acc[i].hash = e.hash
                     THEN acc ELSE Append(acc, e))

\* one entry e of the other set in symmetric_difference_update: discarded
\* from st.data when found, added otherwise
Toggle(st, e) ==
    LET l == Lookup(st, e.key, e.hash)
    IN IF l.slot # 0
       THEN [heap |-> l.heap, data |-> RemoveAt(st.data, l.slot)]
       ELSE [heap |-> l.heap, data |-> Append(st.data, e)]

RECURSIVE ToggleAll(_, _)
ToggleAll(st, es) ==
    IF es = <<>> THEN st ELSE ToggleAll(Toggle(st, Head(es)), Tail(es))

\* set.symmetric_difference_update(other): other's entries, with the hashes
\* other stored, in whatever order other iterates.  The outcomes.
SymmetricDifferenceUpdate(st, other) ==
    {ToggleAll(st, o) : o \in Orders(other)}

\* set.remove(k): KeyError when k is not found
SetRemove(st, k) ==
    LET l == Lookup(st, k, Hash(st.heap[k]))
    IN IF l.slot # 0
       THEN [heap |-> l.heap, data |-> RemoveAt(st.data, l.slot),
             exc |-> "none"]
       ELSE [heap |-> l.heap, data |-> st.data, exc |-> "KeyError"]

(***************************************************************************)
(* Annotations._resolve_pair(x, y) from state st = [heap, data]: the       *)
(* outcomes, each with the exception raised and the object returned.       *)
(***************************************************************************)
ResolvePair(st, x, y) ==
    LET h == st.heap
        swap == h[y].end < h[x].end
        a1 == IF swap THEN y ELSE x
        a2 == IF swap THEN x ELSE y
        new == Len(h) + 1
        h1 == Append(h, NewAnnotation(h[a1].start, h[a2].end,
                                      h[a1].name, h[a1].value))
        raise == {[heap |-> h, data |-> st.data, exc |-> "Exception",
                   ret |-> 0]}
    IN IF h[a2].start < h[a1].end
       THEN IF h[a1].end >= h[a2].start
            THEN {[heap |-> r.heap, data |-> r.data, exc |-> "none",
                   ret |-> new]
                  : r \in SymmetricDifferenceUpdate(
                             [heap |-> h1, data |-> st.data],
                             BuildSet(h1, <<a1, a2, new>>, <<>>))}
            ELSE IF h[a2].start <= h[a1].start /\ h[a1].end <= h[a2].end
                 THEN LET r == SetRemove(st, a1)
                      IN {[heap |-> r.heap, data |-> r.data, exc |-> r.exc,
                           ret |-> IF r.exc = "none" THEN a2 ELSE 0]}
                 ELSE raise
       ELSE raise

\* the test resolve() and _add_annotation() make before _resolve_pair
MayOverlap(h, x, y) == h[y].start < h[x].end \/ h[x].start < h[y].end

(***************************************************************************)
(* A set iterator raises RuntimeError at its next step when the set's size *)
(* is not the size it recorded.  When the body changed the set and left    *)
(* its size, the iterator goes on from wherever its slot index falls in    *)
(* the changed (possibly rehashed) table: the slots in any order, any      *)
(* number of them passed.                                                  *)
(***************************************************************************)
Resume(d, inner) ==
    {[data |-> o, it1 |-> i, it2 |-> j] :
        o \in Orders(d),
        i \in {n \in 0 .. Len(d) : Len(d) - n <= TableSize - si1},
        j \in IF inner
              THEN {n \in 0 .. Len(d) : Len(d) - n <= TableSize - si2}
              ELSE {0}}

\* how the loops go on after _resolve_pair returned with set d
AfterBody(d, inner) ==
    IF Len(d) = used
    THEN Resume(d, inner)
    ELSE {[data |-> Canonical(d), it1 |-> 0, it2 |-> 0]}

(***************************************************************************)
(* Object lifetime: an Annotation object lives while the set or a local    *)
(* variable of the running handler refers to it.  The other objects are    *)
(* freed and the living ones numbered: the set's in slot order, then the   *)
(* locals' (roots; 0 is an unset local).                                   *)
(***************************************************************************)
RECURSIVE DistinctKeys(_, _)
DistinctKeys(ks, acc) ==
    IF ks = <<>> THEN acc
    ELSE DistinctKeys(Tail(ks),
                      IF \/ Head(ks) = 0
                         \/ \E i \in 1 .. Len(acc) : acc[i] = Head(ks)
                      THEN acc ELSE Append(acc, Head(ks)))

Compact(h, d, roots) ==
    LET ks == DistinctKeys([i \in 1 .. Len(d) |-> d[i].key] \o roots, <<>>)
        ren(k) == IF k = 0 THEN 0 ELSE CHOOSE i \in 1 .. Len(ks) : ks[i] = k
    IN [heap |-> [i \in 1 .. Len(ks) |-> h[ks[i]]],
        data |-> [i \in 1 .. Len(d) |->
                     [key |-> ren(d[i].key), hash |-> d[i].hash]],
        roots |-> [i \in 1 .. Len(roots) |-> ren(roots[i])]]

\* the stored annotations, slot by slot
Stored == [i \in 1 .. Len(data) |-> heap[data[i].key]]

\* a query that leaves out the annotations ending at pos
GetItemExclusive(pos) ==
    {i \in 1 .. Len(data) : Stored[i].start <= pos /\ pos < Stored[i].end}

\* Annotations.__getitem__(pos): the stored annotations whose range holds pos
GetItem(pos) ==
    {i \in 1 .. Len(data) : Stored[i].start <= pos /\ pos <= Stored[i].end}

(***************************************************************************)
(* Handlers of Annotations.                                                *)
(***************************************************************************)
\* a handler returns or raises e, leaving heap h and set d
Return(h, d, e) ==
    /\ heap' = Compact(h, Canonical(d), <<>>).heap
    /\ data' = Compact(h, Canonical(d), <<>>).data
    /\ exc' = e
    /\ pc' = "idle"
    /\ it1' = 0 /\ it2' = 0 /\ si1' = 0 /\ si2' = 0 /\ used' = 0
    /\ annotation_1' = 0 /\ annotation' = 0

\* a handler goes on with heap h, set d and locals a1 (annotation_1) and a
\* (annotation)
Continue(h, d, a1, a) ==
    /\ heap' = Compact(h, d, <<a1, a>>).heap
    /\ data' = Compact(h, d, <<a1, a>>).data
    /\ annotation_1' = Compact(h, d, <<a1, a>>).roots[1]
    /\ annotation' = Compact(h, d, <<a1, a>>).roots[2]

\* resolve() is called: the outer loop's iterator is made
Resolve ==
    /\ pc = "idle" /\ calls < MaxCalls
    /\ pc' = "resolve_outer" /\ op' = "resolve" /\ exc' = "none"
    /\ args' = NoArgs /\ pre' = Stored /\ calls' = calls + 1
    /\ it1' = 0 /\ it2' = 0 /\ si1' = 0 /\ si2' = 0 /\ used' = Len(data)
    /\ \E o \in Orders(data) : Continue(heap, o, 0, 0)
    /\ UNCHANGED <<output, docVars, listVars, blipVars, cfgVars>>

\* resolve(): "for annotation_1 in self._data"; the inner loop's iterator is
\* made when the outer one yields
ResolveOuter ==
    /\ pc = "resolve_outer"
    /\ IF Len(data) # used
       THEN Return(heap, data, "RuntimeError")
       ELSE IF it1 = Len(data)
            THEN Return(heap, data, "none")
            ELSE /\ Continue(heap, data, data[it1 + 1].key, 0)
                 /\ it1' = it1 + 1 /\ si1' = si1 + 1
                 /\ it2' = 0 /\ si2' = 0
                 /\ pc' = "resolve_inner"
                 /\ UNCHANGED <<exc, used>>
    /\ UNCHANGED <<op, args, pre, calls>>
    /\ UNCHANGED <<output, docVars, listVars, blipVars, cfgVars>>

\* resolve(): "for annotation_2 in self._data" and the loop's body
ResolveInner ==
    /\ pc = "resolve_inner"
    /\ IF Len(data) # used
       THEN Return(heap, data, "RuntimeError")
       ELSE IF it2 = Len(data)
            THEN /\ pc' = "resolve_outer" /\ it2' = 0 /\ si2' = 0
                 /\ Continue(heap, data, annotation_1, 0)
                 /\ UNCHANGED <<exc, it1, si1, used>>
            ELSE LET annotation_2 == data[it2 + 1].key
                     eq == AnnotationEq(heap, annotation_1, annotation_2)
                 IN IF eq.ret
                    THEN /\ Continue(eq.heap, data, annotation_1, 0)
                         /\ it2' = it2 + 1 /\ si2' = si2 + 1
                         /\ UNCHANGED <<pc, exc, it1, si1, used>>
                    ELSE IF MayOverlap(heap, annotation_1, annotation_2)
                         THEN \E r \in ResolvePair(
                                  [heap |-> heap, data |-> data],
                                  annotation_1, annotation_2) :
                                  IF r.exc # "none"
                                  THEN Return(r.heap, r.data, r.exc)
                                  ELSE /\ si2' = si2 + 1
                                       /\ \E c \in AfterBody(r.data, TRUE) :
                                              /\ Continue(r.heap, c.data,
                                                          annotation_1, 0)
                                              /\ it1' = c.it1
                                              /\ it2' = c.it2
                                       /\ UNCHANGED <<pc, exc, si1, used>>
                         ELSE /\ Continue(heap, data, annotation_1, 0)
                              /\ it2' = it2 + 1 /\ si2' = si2 + 1
                              /\ UNCHANGED <<pc, exc, it1, si1, used>>
    /\ UNCHANGED <<op, args, pre, calls>>
    /\ UNCHANGED <<output, docVars, listVars, blipVars, cfgVars>>

\* annotate(start, end, name, value) is called: the Annotation is made and
\* _add_annotation's iterator with it
Annotate(start, end, name, value) ==
    /\ pc = "idle" /\ calls < MaxCalls
    /\ pc' = "add_loop" /\ op' = "annotate" /\ exc' = "none"
    /\ args' = NewAnnotation(start, end, name, value)
    /\ pre' = Stored /\ calls' = calls + 1
    /\ it1' = 0 /\ it2' = 0 /\ si1' = 0 /\ si2' = 0 /\ used' = Len(data)
    /\ \E o \in Orders(data) :
           Continue(Append(heap, NewAnnotation(start, end, name, value)),
                    o, 0, Len(heap) + 1)
    /\ UNCHANGED <<output, docVars, listVars, blipVars, cfgVars>>

\* _add_annotation(): "for current_annotation in self._data" and its body
AddLoop ==
    /\ pc = "add_loop"
    /\ IF Len(data) # used
       THEN Return(heap, data, "RuntimeError")
       ELSE IF it1 = Len(data)
            THEN Return(heap, data, "none")
            ELSE LET current_annotation == data[it1 + 1].key
                 IN IF MayOverlap(heap, current_annotation, annotation)
                    THEN \E r \in ResolvePair(
                             [heap |-> heap, data |-> data],
                             annotation, current_annotation) :
                             IF r.exc # "none"
                             THEN Return(r.heap, r.data, r.exc)
                             ELSE /\ si1' = si1 + 1
                                  /\ \E c \in AfterBody(r.data, FALSE) :
                                         /\ Continue(r.heap, c.data, 0, r.ret)
                                         /\ it1' = c.it1
                                  /\ UNCHANGED <<pc, exc, it2, si2, used>>
                    ELSE /\ it1' = it1 + 1 /\ si1' = si1 + 1
                         /\ UNCHANGED <<heap, data, pc, exc, it2, si2, used,
                                        annotation_1, annotation>>
    /\ UNCHANGED <<op, args, pre, calls>>
    /\ UNCHANGED <<output, docVars, listVars, blipVars, cfgVars>>

\* the slots of S in the order the set is iterated in
InSlotOrder(S) ==
    CHOOSE s \in [1 .. Cardinality(S) -> S] :
        \A i, j \in 1 .. Cardinality(S) : i < j => s[i] < s[j]

\* __getitem__(pos) is called: the list 'output' it builds and returns
GetItemCall(pos) ==
    /\ pc = "idle" /\ calls < MaxCalls
    /\ op' = "__getitem__" /\ exc' = "none"
    /\ args' = [start |-> pos, end |-> pos, name |-> "", value |-> ""]
    /\ pre' = Stored /\ calls' = calls + 1
    /\ output' = [k \in 1 .. Cardinality(GetItem(pos)) |->
                      Stored[InSlotOrder(GetItem(pos))[k]]]
    /\ UNCHANGED <<heap, data, pc, it1, it2, si1, si2, used, annotation_1,
                   annotation>>
    /\ UNCHANGED <<docVars, listVars, blipVars, cfgVars>>

\* _resolve_pair(x, y) called on the annotations in slots i and j
ResolvePairCall(i, j) ==
    /\ pc = "idle" /\ calls < MaxCalls
    /\ op' = "_resolve_pair"
    /\ args' = [start |-> i, end |-> j, name |-> "", value |-> ""]
    /\ pre' = Stored /\ calls' = calls + 1
    /\ \E r \in ResolvePair([heap |-> heap, data |-> data],
                            data[i].key, data[j].key) :
           /\ Return(r.heap, r.data, r.exc)
           /\ output' = IF r.exc = "none" THEN <<r.heap[r.ret]>> ELSE <<>>
    /\ UNCHANGED <<docVars, listVars, blipVars, cfgVars>>

(***************************************************************************)
(* The Annotations machine.  The set starts as the caller filled it: up to *)
(* MaxInit annotations with start <= end, no two with the same fields,     *)
(* each stored under the hash of its fields.                               *)
(***************************************************************************)
WellFormed ==
    {a \in [start : Positions, end : Positions,
            name : {k[1] : k \in AnnKeys}, value : {k[2] : k \in AnnKeys}] :
        a.start <= a.end /\ <<a.name, a.value>> \in AnnKeys}

InitialSets ==
    UNION {{s \in [1 .. n -> WellFormed] :
              \A i, j \in 1 .. n :
                  i < j => Rank(Hash(s[i])) < Rank(Hash(s[j]))}
           : n \in 0 .. MaxInit}

DocIdle ==
    /\ content = <<>> /\ rotation = 0 /\ dexc = "none"
    /\ base = <<>> /\ script = <<>>

\* no call made yet on the Contributors list
ListIdle ==
    /\ contributors = <<>> /\ cpre = <<>>
    /\ cop = [op |-> "none", a1 |-> 0, a2 |-> 0] /\ cexc = "none"

\* no Blip constructed
NoBlip == creator = "none"

\* the keys and values of Config.data
Keys == {"k"}
Values == {"v1", "v2"}
\* a dict over Keys; {} is the dict with every key absent
Dicts == [Keys -> Values \cup {"absent"}]
EmptyDict == [k \in Keys |-> "absent"]
\* the namespaces of the config file
FileNamespaces == {"a", "b"}
\* a namespace the file does not have, and one it has with dict d
Missing == [present |-> FALSE, d |-> EmptyDict]
Present(d) == [present |-> TRUE, d |-> d]
\* a config file that does not exist yet, or does not hold JSON
NoFile == [stat |-> "garbage", cfg |-> [n \in FileNamespaces |-> Missing]]
\* Config(): no namespace, the lock free, no timer, no data; no thread
\* calls it
CfgIdle ==
    /\ namespace = "None" /\ lock = "free" /\ cfgdata = EmptyDict
    /\ autosave_time = -1 /\ autosave = 0
    /\ threads = <<>> /\ file = NoFile
    /\ gdk = FALSE /\ ncalls = 0

Init ==
    /\ heap \in InitialSets
    /\ data = [i \in 1 .. Len(heap) |-> [key |-> i, hash |-> Hash(heap[i])]]
    /\ pc = "idle" /\ op = "none" /\ exc = "none"
    /\ it1 = 0 /\ it2 = 0 /\ si1 = 0 /\ si2 = 0 /\ used = 0
    /\ annotation_1 = 0 /\ annotation = 0
    /\ args = NoArgs /\ pre = <<>> /\ calls = 0
    /\ output = <<>>
    /\ DocIdle
    /\ ListIdle
    /\ NoBlip
    /\ CfgIdle

Next ==
    \/ Resolve
    \/ ResolveOuter
    \/ ResolveInner
    \/ \E s \in Positions, e \in Positions, k \in AnnKeys :
           Annotate(s, e, k[1], k[2])
    \/ AddLoop
    \/ \E i \in 1 .. Len(data), j \in 1 .. Len(data) : ResolvePairCall(i, j)
    \/ \E pos \in Positions : GetItemCall(pos)

Spec == Init /\ [][Next]_vars

(***************************************************************************)
(* BlipDocument(deque).  self.annotations is an Annotations object; every  *)
(* handler ends by calling a method on it.                                 *)
(***************************************************************************)
\* the attributes class Annotations defines
AnnotationsMethods ==
    {"__init__", "_resolve_pair", "resolve", "_add_annotation", "annotate",
     "copy", "__getitem__", "__setitem__", "__contains__", "__iter__",
     "__getslice__", "__setslice__"}

\* self.annotations.<method>(...): AttributeError for a method that
\* Annotations does not define
CallAnnotations(method) ==
    IF method \in AnnotationsMethods THEN "none" ELSE "AttributeError"

\* deque.rotate(n): n steps to the right, to the left when n < 0
DequeRotate(s, n) ==
    IF Len(s) = 0 THEN s
    ELSE LET k == n % Len(s)
         IN SubSeq(s, Len(s) - k + 1, Len(s)) \o SubSeq(s, 1, Len(s) - k)

Letters == <<"A", "B", "C", "D", "F", "G">>
Bases == {SubSeq(Letters, 1, n) : n \in 0 .. MaxBase}
Counts == 0 .. MaxCount
\* the 'value' of insert_characters
CharacterRuns == {<<"X">>, <<"X", "Y">>}
\* the 'value' of insert: one element
Elements == {"E"}
\* the 'annotations' argument: name/value pairs, none by default
Payloads == {{}, {<<"b", "true">>}}

Call(name, n, units, annotations) ==
    [op |-> name, n |-> n, units |-> units, annotations |-> annotations]

\* a BlipDocument handler is called
Called(c) ==
    /\ Len(script) < MaxOps
    /\ script' = Append(script, c)
    /\ UNCHANGED base
    /\ UNCHANGED <<annVars, output, listVars, blipVars, cfgVars>>

\* BlipDocument.fix_rotation
FixRotationBody ==
    LET e == CallAnnotations("rotate")
    IN /\ content' = DequeRotate(content, rotation)
       /\ rotation' = IF e = "none" THEN 0 ELSE rotation
       /\ dexc' = e

FixRotation ==
    /\ Called(Call("fix_rotation", 0, <<>>, {}))
    /\ FixRotationBody

\* BlipDocument.retain
Retain(value) ==
    /\ Called(Call("retain", value, <<>>, {}))
    /\ rotation' = rotation + value
    /\ content' = DequeRotate(content, -value)
    /\ dexc' = CallAnnotations("rotate")

\* BlipDocument.insert_characters
InsertCharacters(value, annotations) ==
    /\ Called(Call("insert_characters", 0, value, annotations))
    /\ content' = content \o value
    /\ rotation' = IF rotation # 0 THEN rotation + Len(value) ELSE rotation
    /\ dexc' = CallAnnotations("extend")

\* BlipDocument.insert
Insert(value, annotations) ==
    LET e == CallAnnotations("append")
    IN /\ Called(Call("insert", 0, <<value>>, annotations))
       /\ content' = Append(content, value)
       /\ rotation' = IF e = "none" /\ rotation # 0
                      THEN rotation + 1 ELSE rotation
       /\ dexc' = e

\* BlipDocument.delete: popleft() raises IndexError on an empty deque
Delete(value) ==
    /\ Called(Call("delete", value, <<>>, {}))
    /\ UNCHANGED rotation
    /\ IF value > Len(content)
       THEN /\ content' = <<>>
            /\ dexc' = "IndexError"
       ELSE /\ content' = SubSeq(content, value + 1, Len(content))
            /\ dexc' = CallAnnotations("popleft")

\* BlipDocument.complete: fix_rotation(), then return self
Complete ==
    /\ Called(Call("complete", 0, <<>>, {}))
    /\ FixRotationBody

(***************************************************************************)
(* The document machine.  The document starts filled with a base content   *)
(* (deque.extend on a new BlipDocument), rotation 0 and no annotations.    *)
(***************************************************************************)
AnnIdle ==
    /\ heap = <<>> /\ data = <<>>
    /\ pc = "idle" /\ op = "none" /\ exc = "none"
    /\ it1 = 0 /\ it2 = 0 /\ si1 = 0 /\ si2 = 0 /\ used = 0
    /\ annotation_1 = 0 /\ annotation = 0
    /\ args = NoArgs /\ pre = <<>> /\ calls = 0
    /\ output = <<>>

InitDoc ==
    /\ base \in Bases
    /\ content = base /\ rotation = 0 /\ dexc = "none" /\ script = <<>>
    /\ AnnIdle
    /\ ListIdle
    /\ NoBlip
    /\ CfgIdle

NextDoc ==
    \/ \E n \in Counts : Retain(n)
    \/ \E v \in CharacterRuns, a \in Payloads : InsertCharacters(v, a)
    \/ \E v \in Elements, a \in Payloads : Insert(v, a)
    \/ \E n \in Counts : Delete(n)
    \/ FixRotation
    \/ Complete

SpecDoc == InitDoc /\ [][NextDoc]_vars

(***************************************************************************)
(* Contributors(list).  Eight list methods are overridden to do nothing;   *)
(* the other methods of list are inherited.  Blip.__init__ makes the list  *)
(* and appends the creator.                                                *)
(***************************************************************************)
Users == {"u1", "u2"}
\* index arguments, in and out of range
Indices == 0 .. MaxLen
\* the lists passed to extend
UserLists == {<<u>> : u \in Users} \cup {<<u, v>> : u, v \in Users}

\* a call on the Contributors list: its name and arguments, the list it
\* leaves and the exception it raises
ListCall(name, a1, a2, result, e) ==
    /\ cop' = [op |-> name, a1 |-> a1, a2 |-> a2]
    /\ cpre' = contributors
    /\ contributors' = result
    /\ cexc' = e
    /\ UNCHANGED <<annVars, output, docVars, blipVars, cfgVars>>

\* list.remove as list defines it: the first occurrence, or ValueError
PlainRemove(arg) ==
    IF \E k \in 1 .. Len(contributors) : contributors[k] = arg
    THEN ListCall("remove", arg, 0,
                  RemoveAt(contributors,
                           CHOOSE k \in 1 .. Len(contributors) :
                               /\ contributors[k] = arg
                               /\ \A m \in 1 .. k - 1 : contributors[m] # arg),
                  "none")
    ELSE ListCall("remove", arg, 0, contributors, "ValueError")

\* Contributors.__delitem__
DelItem(arg) == ListCall("__delitem__", arg, 0, contributors, "none")

\* Contributors.__delslice__
DelSlice(arg1, arg2) ==
    ListCall("__delslice__", arg1, arg2, contributors, "none")

\* Contributors.__setitem__
SetItem(arg1, arg2) ==
    ListCall("__setitem__", arg1, arg2, contributors, "none")

\* Contributors.__setslice__ (arg3, the new elements, is dropped unread)
SetSlice(arg1, arg2) ==
    ListCall("__setslice__", arg1, arg2, contributors, "none")

\* Contributors.pop
Pop(arg) == ListCall("pop", arg, 0, contributors, "none")

\* Contributors.remove
Remove(arg) == ListCall("remove", arg, 0, contributors, "none")

\* Contributors.sort
Sort == ListCall("sort", 0, 0, contributors, "none")

\* Contributors.reverse
Reverse == ListCall("reverse", 0, 0, contributors, "none")

\* list.append, inherited
ListAppend(arg) ==
    /\ Len(contributors) < MaxLen
    /\ ListCall("append", arg, 0, Append(contributors, arg), "none")

\* list.extend, inherited
ListExtend(arg) ==
    /\ Len(contributors) + Len(arg) <= MaxLen
    /\ ListCall("extend", arg, 0, contributors \o arg, "none")

\* list.insert, inherited: before index arg1, at the end when arg1 is past it
ListInsert(arg1, arg2) ==
    LET k == IF arg1 > Len(contributors) THEN Len(contributors) ELSE arg1
    IN /\ Len(contributors) < MaxLen
       /\ ListCall("insert", arg1, arg2,
                   SubSeq(contributors, 1, k) \o <<arg2>>
                       \o SubSeq(contributors, k + 1, Len(contributors)),
                   "none")

\* n copies of s, one after the other
RECURSIVE Repeat(_, _)
Repeat(s, n) == IF n <= 0 THEN <<>> ELSE s \o Repeat(s, n - 1)

\* list.__imul__, inherited: contributors *= arg
ListIMul(arg) ==
    /\ Len(contributors) * arg <= MaxLen
    /\ ListCall("__imul__", arg, 0, Repeat(contributors, arg), "none")

\* Blip.__init__: the Contributors list with the creator appended
InitList ==
    /\ creator \in Users
    /\ contributors = <<creator>>
    /\ cpre = <<>> /\ cop = [op |-> "none", a1 |-> 0, a2 |-> 0]
    /\ cexc = "none"
    /\ AnnIdle
    /\ DocIdle
    /\ CfgIdle

NextList ==
    \/ \E i \in Indices : DelItem(i)
    \/ \E i \in Indices, j \in Indices : DelSlice(i, j)
    \/ \E i \in Indices, u \in Users : SetItem(i, u)
    \/ \E i \in Indices, j \in Indices : SetSlice(i, j)
    \/ \E i \in Indices : Pop(i)
    \/ \E u \in Users : Remove(u)
    \/ Sort
    \/ Reverse
    \/ \E u \in Users : ListAppend(u)
    \/ \E s \in UserLists : ListExtend(s)
    \/ \E i \in Indices, u \in Users : ListInsert(i, u)
    \/ \E n \in 0 .. 2 : ListIMul(n)

SpecList == InitList /\ [][NextList]_vars

(***************************************************************************)
(* Blip.  The machine starts with no Blip; Blip(creator) constructs one,   *)
(* and the calls on its contributors list follow.                          *)
(***************************************************************************)
\* Blip.__init__ without the append: the Contributors list stays empty
BlipInitNoAppend(c) ==
    /\ NoBlip
    /\ creator' = c
    /\ contributors' = <<>>
    /\ cpre' = <<>> /\ cop' = [op |-> "none", a1 |-> 0, a2 |-> 0]
    /\ cexc' = "none"
    /\ content' = <<>> /\ rotation' = 0 /\ dexc' = "none"
    /\ base' = <<>> /\ script' = <<>>
    /\ heap' = <<>> /\ data' = <<>>
    /\ UNCHANGED <<pc, op, exc, it1, it2, si1, si2, used, annotation_1,
                   annotation, args, pre, calls, output, cfgVars>>

\* Blip.__init__: self.creator, a Contributors list with the creator
\* appended, and a BlipDocument: an empty deque, Annotations() with an
\* empty set, rotation 0
BlipInit(c) ==
    /\ NoBlip
    /\ creator' = c
    /\ contributors' = Append(<<>>, c)
    /\ cpre' = <<>> /\ cop' = [op |-> "none", a1 |-> 0, a2 |-> 0]
    /\ cexc' = "none"
    /\ content' = <<>> /\ rotation' = 0 /\ dexc' = "none"
    /\ base' = <<>> /\ script' = <<>>
    /\ heap' = <<>> /\ data' = <<>>
    /\ UNCHANGED <<pc, op, exc, it1, it2, si1, si2, used, annotation_1,
                   annotation, args, pre, calls, output, cfgVars>>

InitBlip ==
    /\ NoBlip
    /\ ListIdle
    /\ AnnIdle
    /\ DocIdle
    /\ CfgIdle

\* a call on the contributors list of the constructed Blip
BlipContributorsCall ==
    /\ ~NoBlip
    /\ NextList

NextBlip ==
    \/ \E c \in Users : BlipInit(c)
    \/ BlipContributorsCall

SpecBlip == InitBlip /\ [][NextBlip]_vars

(***************************************************************************)
(* persistance/config.py: Config and its ConfigRW reader/writer threads.   *)
(* Caller threads call the methods of one Config; set() starts             *)
(* threading.Timer threads that call save(); load(), save() and bleach()   *)
(* start ConfigRW threads.  Each thread has a position `at`; a Config      *)
(* method called from a thread returns to the position `ret`.              *)
(***************************************************************************)
\* the caller threads
NCallers == 2
\* Config calls the caller threads make, all together
MaxCfgCalls == 3

\* Python truth of a namespace value: None and '' are false
Truthy(x) == x \notin {"None", ""}
\* x or y
Or(x, y) == IF Truthy(x) THEN x ELSE y

\* the namespace argument of load, absent ("None") by default
LoadNamespaces == {"None", "", "a", "b"}
\* the namespace argument of save and bleach
SaveNamespaces == {"None", "a"}
\* the action argument of load: none, a callback that only returns, a
\* callback that calls get() on the same Config, one that calls set()
Actions == {"None", "plain", "get", "set"}
\* the argument of set: a dict
SetArgs == {[k \in Keys |-> v] : v \in Values}
\* the argument of setAutoTimer
Times == {-1, 1}
\* the config file when the Config is made
Files ==
    {NoFile,
     [stat |-> "json", cfg |-> [n \in FileNamespaces |-> Missing]],
     [stat |-> "json",
      cfg |-> [n \in FileNamespaces |->
                   IF n = "a" THEN Present([k \in Keys |-> "v2"])
                   ELSE Missing]]}

\* for i in data: self.data[i] = data[i]
Update(d, e) == [k \in Keys |-> IF e[k] # "absent" THEN e[k] ELSE d[k]]

\* json.loads(f.read()), {} when it raises
ReadAll == IF file.stat = "json" THEN file.cfg
           ELSE [n \in FileNamespaces |-> Missing]
\* allconfig[namespace] if namespace is in allconfig, {} otherwise
Found(ns) == IF ReadAll[ns].present THEN ReadAll[ns].d ELSE EmptyDict
\* allconfig[namespace] = results, written back over the file
Written(ns, results) ==
    [stat |-> "json", cfg |-> [ReadAll EXCEPT ![ns] = Present(results)]]

\* a thread: its kind, its position, where the Config method it runs
\* returns to, and the locals of the method
Thread(kind, at, ret) ==
    [kind |-> kind, at |-> at, ret |-> ret, ns |-> "None", job |-> "none",
     act |-> "None", d |-> EmptyDict, key |-> "", cancelled |-> FALSE,
     exc |-> "none"]

Caller == Thread("caller", "idle", "idle")
\* threading.Timer(self.autosave_time, self.save), started
Timer == Thread("timer", "wait", "done")
\* ConfigRW(namespace, whendone, self): job and act tell which whendone
ConfigRW(ns, job, act) ==
    [Thread("rw", "start", "done") EXCEPT !.ns = ns, !.job = job, !.act = act]

Threads == 1 .. Len(threads)

\* the method returns: back to ret, the locals gone
Returned(r, e) ==
    [Thread(r.kind, r.ret, IF r.kind = "rw" THEN "done" ELSE r.ret)
        EXCEPT !.ns = IF r.kind = "rw" THEN r.ns ELSE "None",
               !.job = IF r.kind = "caller" THEN "none" ELSE r.job,
               !.act = IF r.kind = "rw" THEN r.act ELSE "None",
               !.cancelled = r.cancelled, !.exc = e]

\* thread p moves to position at
Goto(p, at) == threads' = [threads EXCEPT ![p].at = at]

\* a caller thread starts a Config call
Calls(p) ==
    /\ threads[p].kind = "caller"
    /\ threads[p].at = "idle"
    /\ ncalls < MaxCfgCalls
    /\ ncalls' = ncalls + 1
    /\ UNCHANGED <<annVars, output, docVars, listVars, blipVars>>

\* a thread goes on inside a Config method
Steps(p, at) ==
    /\ threads[p].at = at
    /\ UNCHANGED <<ncalls, annVars, output, docVars, listVars, blipVars>>

\* Config.set: called
Set(p, d) ==
    /\ Calls(p)
    /\ threads' = [threads EXCEPT ![p] =
                       [Caller EXCEPT !.at = "set_acquire", !.d = d]]
    /\ UNCHANGED <<namespace, lock, cfgdata, autosave_time, autosave, file,
                   gdk>>

\* Config.set: self.lock.acquire()
SetAcquire(p) ==
    /\ Steps(p, "set_acquire")
    /\ lock = "free"
    /\ lock' = "set"
    /\ Goto(p, "set_data")
    /\ UNCHANGED <<namespace, cfgdata, autosave_time, autosave, file, gdk>>

\* Config.set: self._set(data); if self.autosave_time >= 0
SetData(p) ==
    /\ Steps(p, "set_data")
    /\ cfgdata' = Update(cfgdata, threads[p].d)
    /\ Goto(p, IF autosave_time >= 0 THEN "set_cancel" ELSE "set_release")
    /\ UNCHANGED <<namespace, lock, autosave_time, autosave, file, gdk>>

\* the cancel left out: the timer threads stay as they are
NoCancel(ts) == ts

\* if self.autosave != None: self.autosave.cancel()
Cancel(ts) ==
    IF autosave # 0 THEN [ts EXCEPT ![autosave].cancelled = TRUE] ELSE ts

\* Config.set: the previous timer is cancelled
SetCancel(p) ==
    /\ Steps(p, "set_cancel")
    /\ threads' = [Cancel(threads) EXCEPT ![p].at = "set_timer"]
    /\ UNCHANGED <<namespace, lock, cfgdata, autosave_time, autosave, file,
                   gdk>>

\* Config.set: self.autosave = threading.Timer(...); self.autosave.start()
SetTimer(p) ==
    /\ Steps(p, "set_timer")
    /\ threads' = Append([threads EXCEPT ![p].at = "set_release"], Timer)
    /\ autosave' = Len(threads) + 1
    /\ UNCHANGED <<namespace, lock, cfgdata, autosave_time, file, gdk>>

\* Config.set: finally: self.lock.release()
SetRelease(p) ==
    /\ Steps(p, "set_release")
    /\ lock' = "free"
    /\ threads' = [threads EXCEPT ![p] = Returned(threads[p], "none")]
    /\ UNCHANGED <<namespace, cfgdata, autosave_time, autosave, file, gdk>>

\* Config.get: called
Get(p, name) ==
    /\ Calls(p)
    /\ threads' = [threads EXCEPT ![p] =
                       [Caller EXCEPT !.at = "get_acquire", !.key = name]]
    /\ UNCHANGED <<namespace, lock, cfgdata, autosave_time, autosave, file,
                   gdk>>

\* Config.get: self.lock.acquire()
GetAcquire(p) ==
    /\ Steps(p, "get_acquire")
    /\ lock = "free"
    /\ lock' = "get"
    /\ Goto(p, "get_body")
    /\ UNCHANGED <<namespace, cfgdata, autosave_time, autosave, file, gdk>>

\* Config.get: d = self.data[name], KeyError for a missing key; finally the
\* lock is released
GetBody(p) ==
    /\ Steps(p, "get_body")
    /\ lock' = "free"
    /\ threads' = [threads EXCEPT ![p] =
                       Returned(threads[p],
                                IF cfgdata[threads[p].key] = "absent"
                                THEN "KeyError" ELSE "none")]
    /\ UNCHANGED <<namespace, cfgdata, autosave_time, autosave, file, gdk>>

\* Config.hasKey: called
HasKey(p, key) ==
    /\ Calls(p)
    /\ threads' = [threads EXCEPT ![p] =
                       [Caller EXCEPT !.at = "hasKey_acquire", !.key = key]]
    /\ UNCHANGED <<namespace, lock, cfgdata, autosave_time, autosave, file,
                   gdk>>

\* Config.hasKey: self.lock.acquire()
HasKeyAcquire(p) ==
    /\ Steps(p, "hasKey_acquire")
    /\ lock = "free"
    /\ lock' = "hasKey"
    /\ Goto(p, "hasKey_body")
    /\ UNCHANGED <<namespace, cfgdata, autosave_time, autosave, file, gdk>>

\* Config.hasKey: d = key in self.data; self.lock.release()
HasKeyBody(p) ==
    /\ Steps(p, "hasKey_body")
    /\ lock' = "free"
    /\ threads' = [threads EXCEPT ![p] = Returned(threads[p], "none")]
    /\ UNCHANGED <<namespace, cfgdata, autosave_time, autosave, file, gdk>>

\* Config.getAll: called
GetAll(p) ==
    /\ Calls(p)
    /\ threads' = [threads EXCEPT ![p] =
                       [Caller EXCEPT !.at = "getAll_acquire"]]
    /\ UNCHANGED <<namespace, lock, cfgdata, autosave_time, autosave, file,
                   gdk>>

\* Config.getAll: self.lock.acquire()
GetAllAcquire(p) ==
    /\ Steps(p, "getAll_acquire")
    /\ lock = "free"
    /\ lock' = "getAll"
    /\ Goto(p, "getAll_body")
    /\ UNCHANGED <<namespace, cfgdata, autosave_time, autosave, file, gdk>>

\* Config.getAll: d = self.data; self.lock.release()
GetAllBody(p) ==
    /\ Steps(p, "getAll_body")
    /\ lock' = "free"
    /\ threads' = [threads EXCEPT ![p] = Returned(threads[p], "none")]
    /\ UNCHANGED <<namespace, cfgdata, autosave_time, autosave, file, gdk>>

\* Config.load: self.namespace = self.namespace or namespace; NamespaceError
\* if it is false; the whendone closure is chosen by action.  The thread
\* keeps the arguments of the call.
Load(p, ns, action) ==
    /\ Calls(p)
    /\ namespace' = Or(namespace, ns)
    /\ threads' = [threads EXCEPT ![p] =
                       IF Truthy(namespace')
                       THEN [Caller EXCEPT !.at = "load_acquire",
                                           !.job = "load", !.ns = ns,
                                           !.act = action]
                       ELSE [Caller EXCEPT !.job = "load", !.ns = ns,
                                           !.exc = "NamespaceError"]]
    /\ UNCHANGED <<lock, cfgdata, autosave_time, autosave, file, gdk>>

\* Config.load: self.lock.acquire(); ConfigRW(self.namespace, whendone, self)
LoadAcquire(p) ==
    /\ Steps(p, "load_acquire")
    /\ lock = "free"
    /\ lock' = "load"
    /\ threads' = Append([threads EXCEPT ![p] = Returned(threads[p], "none")],
                         ConfigRW(namespace, "load", threads[p].act))
    /\ UNCHANGED <<namespace, cfgdata, autosave_time, autosave, file, gdk>>

\* save(namespace) enters: ns = self.namespace or namespace; return False
\* if ns == None
SaveEntered(r, ns) ==
    IF Or(namespace, ns) = "None"
    THEN Returned(r, "none")
    ELSE [r EXCEPT !.at = "save_acquire", !.ns = Or(namespace, ns)]

\* Config.save: called
Save(p, ns) ==
    /\ Calls(p)
    /\ threads' = [threads EXCEPT ![p] = SaveEntered(Caller, ns)]
    /\ UNCHANGED <<namespace, lock, cfgdata, autosave_time, autosave, file,
                   gdk>>

\* Config.save: self.lock.acquire(); ConfigRW(ns, whendone, self)
SaveAcquire(p) ==
    /\ Steps(p, "save_acquire")
    /\ lock = "free"
    /\ lock' = "save"
    /\ threads' = Append([threads EXCEPT ![p] = Returned(threads[p], "none")],
                         ConfigRW(threads[p].ns, "save", "None"))
    /\ UNCHANGED <<namespace, cfgdata, autosave_time, autosave, file, gdk>>

\* Config.bleach: called; ns = self.namespace or namespace; return False if
\* ns == None
Bleach(p, ns) ==
    /\ Calls(p)
    /\ threads' = [threads EXCEPT ![p] =
                       IF Or(namespace, ns) = "None"
                       THEN Caller
                       ELSE [Caller EXCEPT !.at = "bleach_acquire",
                                           !.ns = Or(namespace, ns)]]
    /\ UNCHANGED <<namespace, lock, cfgdata, autosave_time, autosave, file,
                   gdk>>

\* Config.bleach: self.lock.acquire()
BleachAcquire(p) ==
    /\ Steps(p, "bleach_acquire")
    /\ lock = "free"
    /\ lock' = "bleach"
    /\ Goto(p, "bleach_body")
    /\ UNCHANGED <<namespace, cfgdata, autosave_time, autosave, file, gdk>>

\* Config.bleach: self.data = {}; self.lock.release(); ConfigRW(ns, ...)
BleachBody(p) ==
    /\ Steps(p, "bleach_body")
    /\ cfgdata' = EmptyDict
    /\ lock' = "free"
    /\ threads' = Append([threads EXCEPT ![p] = Returned(threads[p], "none")],
                         ConfigRW(threads[p].ns, "bleach", "None"))
    /\ UNCHANGED <<namespace, autosave_time, autosave, file, gdk>>

\* Config.setAutoTimer
SetAutoTimer(p, time) ==
    /\ Calls(p)
    /\ autosave_time' = time
    /\ threads' = [threads EXCEPT ![p] = Caller]
    /\ UNCHANGED <<namespace, lock, cfgdata, autosave, file, gdk>>

\* threading.Timer.run: the wait ends; self.save() is called unless the
\* timer was cancelled
TimerRun(p) ==
    /\ Steps(p, "wait")
    /\ threads' = [threads EXCEPT ![p] =
                       IF threads[p].cancelled
                       THEN Returned(threads[p], "none")
                       ELSE SaveEntered([threads[p] EXCEPT !.job = "fired"],
                                        "None")]
    /\ UNCHANGED <<namespace, lock, cfgdata, autosave_time, autosave, file,
                   gdk>>

\* ConfigRW.run: threads_enter()
RWEnter(p) ==
    /\ Steps(p, "start")
    /\ gdk = FALSE
    /\ gdk' = TRUE
    /\ Goto(p, "run")
    /\ UNCHANGED <<namespace, lock, cfgdata, autosave_time, autosave, file>>

\* ConfigRW.run: the file is opened and read, and self.action called on
\* the namespace's dict.  load's whendone merges it into self.data and,
\* with no callback, releases the lock; save's whendone merges self.data
\* into it, releases the lock and returns it; bleach's returns {}.  A
\* result that is not None is written back; then threads_leave().
RWRun(p) ==
    LET r == threads[p]
    IN /\ Steps(p, "run")
       /\ CASE r.job = "load" /\ r.act = "None" ->
                   /\ cfgdata' = Update(cfgdata, Found(r.ns))
                   /\ lock' = "free"
                   /\ gdk' = FALSE
                   /\ Goto(p, "done")
                   /\ UNCHANGED file
            [] r.job = "load" /\ r.act # "None" ->
                   /\ cfgdata' = Update(cfgdata, Found(r.ns))
                   /\ Goto(p, "callback")
                   /\ UNCHANGED <<lock, gdk, file>>
            [] r.job = "save" ->
                   /\ file' = Written(r.ns, Update(Found(r.ns), cfgdata))
                   /\ lock' = "free"
                   /\ gdk' = FALSE
                   /\ Goto(p, "done")
                   /\ UNCHANGED cfgdata
            [] r.job = "bleach" ->
                   /\ file' = Written(r.ns, EmptyDict)
                   /\ gdk' = FALSE
                   /\ Goto(p, "done")
                   /\ UNCHANGED <<lock, cfgdata>>
       /\ UNCHANGED <<namespace, autosave_time, autosave>>

\* load's whendone: action(self.data), the callback given to load
Callback(p) ==
    LET r == threads[p]
    IN /\ Steps(p, "callback")
       /\ threads' =
              [threads EXCEPT ![p] =
                  CASE r.act = "plain" -> [r EXCEPT !.at = "cb_return"]
                    [] r.act = "get" ->
                           [r EXCEPT !.at = "get_acquire", !.key = "k",
                                     !.ret = "cb_return"]
                    [] r.act = "set" ->
                           [r EXCEPT !.at = "set_acquire",
                                     !.d = [k \in Keys |-> "v1"],
                                     !.ret = "cb_return"]]
       /\ UNCHANGED <<namespace, lock, cfgdata, autosave_time, autosave, file,
                      gdk>>

\* load's whendone after the callback returned: self.lock.release(); the
\* result is None, nothing is written; threads_leave()
CallbackReturn(p) ==
    /\ Steps(p, "cb_return")
    /\ lock' = "free"
    /\ gdk' = FALSE
    /\ Goto(p, "done")
    /\ UNCHANGED <<namespace, cfgdata, autosave_time, autosave, file>>

\* Config() with the caller threads that share it
InitCfg ==
    /\ namespace = "None" /\ lock = "free" /\ cfgdata = EmptyDict
    /\ autosave_time = -1 /\ autosave = 0
    /\ threads = [p \in 1 .. NCallers |-> Caller]
    /\ file \in Files
    /\ gdk = FALSE /\ ncalls = 0
    /\ AnnIdle
    /\ DocIdle
    /\ ListIdle
    /\ NoBlip

\* the steps the threads take once a method is called
Running(p) ==
    \/ SetAcquire(p) \/ SetData(p) \/ SetCancel(p) \/ SetTimer(p)
    \/ SetRelease(p)
    \/ GetAcquire(p) \/ GetBody(p)
    \/ HasKeyAcquire(p) \/ HasKeyBody(p)
    \/ GetAllAcquire(p) \/ GetAllBody(p)
    \/ LoadAcquire(p)
    \/ SaveAcquire(p)
    \/ BleachAcquire(p) \/ BleachBody(p)
    \/ TimerRun(p)
    \/ RWEnter(p) \/ RWRun(p) \/ Callback(p) \/ CallbackReturn(p)

NextCfg ==
    \/ \E p \in Threads, d \in SetArgs : Set(p, d)
    \/ \E p \in Threads : SetAcquire(p)
    \/ \E p \in Threads : SetData(p)
    \/ \E p \in Threads : SetCancel(p)
    \/ \E p \in Threads : SetTimer(p)
    \/ \E p \in Threads : SetRelease(p)
    \/ \E p \in Threads, k \in Keys : Get(p, k)
    \/ \E p \in Threads : GetAcquire(p)
    \/ \E p \in Threads : GetBody(p)
    \/ \E p \in Threads, k \in Keys : HasKey(p, k)
    \/ \E p \in Threads : HasKeyAcquire(p)
    \/ \E p \in Threads : HasKeyBody(p)
    \/ \E p \in Threads : GetAll(p)
    \/ \E p \in Threads : GetAllAcquire(p)
    \/ \E p \in Threads : GetAllBody(p)
    \/ \E p \in Threads, ns \in LoadNamespaces, a \in Actions :
           Load(p, ns, a)
    \/ \E p \in Threads : LoadAcquire(p)
    \/ \E p \in Threads, ns \in SaveNamespaces : Save(p, ns)
    \/ \E p \in Threads : SaveAcquire(p)
    \/ \E p \in Threads, ns \in SaveNamespaces : Bleach(p, ns)
    \/ \E p \in Threads : BleachAcquire(p)
    \/ \E p \in Threads : BleachBody(p)
    \/ \E p \in Threads, t \in Times : SetAutoTimer(p, t)
    \/ \E p \in Threads : TimerRun(p)
    \/ \E p \in Threads : RWEnter(p)
    \/ \E p \in Threads : RWRun(p)
    \/ \E p \in Threads : Callback(p)
    \/ \E p \in Threads : CallbackReturn(p)

SpecCfg == InitCfg /\ [][NextCfg]_vars

\* the same machine with every thread that can take a step scheduled
\* again and again: the interpreter switches between runnable threads
SpecCfgFair ==
    /\ InitCfg
    /\ [][NextCfg]_vars
    /\ \A p \in 1 .. NCallers + 2 * MaxCfgCalls :
           WF_vars(p \in Threads /\ Running(p))

(***************************************************************************)
(* The explicit-cursor reading of a script that the claims compare the     *)
(* buffer with: retain moves the cursor, an insert places its units at the *)
(* cursor and moves past them, delete removes the elements at the cursor.  *)
(* ok is FALSE once a retain or delete count exceeded the elements ahead   *)
(* of the cursor.                                                          *)
(***************************************************************************)
RefStep(r, c) ==
    LET ahead == Len(r.doc) - r.cursor
    IN IF ~r.ok THEN r
       ELSE CASE c.op = "retain" ->
                     [r EXCEPT !.cursor = r.cursor + c.n, !.ok = c.n <= ahead]
              [] c.op \in {"insert_characters", "insert"} ->
                     [r EXCEPT !.doc = SubSeq(r.doc, 1, r.cursor) \o c.units
                                       \o SubSeq(r.doc, r.cursor + 1, Len(r.doc)),
                               !.cursor = r.cursor + Len(c.units)]
              [] c.op = "delete" ->
                     IF c.n <= ahead
                     THEN [r EXCEPT !.doc = SubSeq(r.doc, 1, r.cursor) \o
                               SubSeq(r.doc, r.cursor + c.n + 1, Len(r.doc))]
                     ELSE [r EXCEPT !.ok = FALSE]
              [] OTHER -> r

RECURSIVE RefRun(_, _)
RefRun(r, s) == IF s = <<>> THEN r ELSE RefRun(RefStep(r, Head(s)), Tail(s))

Ref == RefRun([doc |-> base, cursor |-> 0, ok |-> TRUE], script)

Fixes == {"fix_rotation", "complete"}

\* the script is edits, followed by fix_rotation or complete calls if any
EditsThenFix ==
    \A i, j \in 1 .. Len(script) :
        (i < j /\ script[i].op \in Fixes) => script[j].op \in Fixes

(***************************************************************************)
(* Properties of the document buffer, stated over SpecDoc.                 *)
(***************************************************************************)
\* C1: for a script of retain, insert_characters, insert and delete calls
\* whose counts do not exceed the elements ahead of the cursor, whenever
\* rotation = 0 the buffer content read left to right is the document the
\* explicit-cursor reading of the same calls produces.
C1_RotationZeroIsDocument ==
    (rotation = 0 /\ EditsThenFix /\ Ref.ok) => content = Ref.doc

\* C2: retain(2), insert_characters("XY"), delete(1) on content "ABCD",
\* then complete(), leaves content "ABXYD" and rotation 0.
C2_ScriptYieldsABXYD ==
    ( /\ base = <<"A", "B", "C", "D">>
      /\ Len(script) = 4
      /\ script[1].op = "retain" /\ script[1].n = 2
      /\ script[2].op = "insert_characters" /\ script[2].units = <<"X", "Y">>
      /\ script[3].op = "delete" /\ script[3].n = 1
      /\ script[4].op = "complete" )
    => (content = <<"A", "B", "X", "Y", "D">> /\ rotation = 0)

\* the calls of the script that insert
Inserts ==
    {k \in 1 .. Len(script) : script[k].op \in {"insert_characters", "insert"}}

\* C9: after an insert_characters(units, annotations) or insert(element,
\* annotations) followed by complete(), every position an inserted unit
\* occupies carries each name/value pair of annotations in the document's
\* annotation set, and no other position carries a pair it did not have.
C9_InsertTagsInsertedSpan ==
    LET n == Len(script)
    IN ( /\ n >= 2
         /\ script[n].op = "complete"
         /\ Inserts = {n - 1} )
       => \A p \in 1 .. Len(content), kv \in script[n - 1].annotations :
              LET tagged == \E m \in GetItem(p - 1) :
                                <<Stored[m].name, Stored[m].value>> = kv
                  inserted == \E u \in 1 .. Len(script[n - 1].units) :
                                  content[p] = script[n - 1].units[u]
              IN tagged <=> inserted

\* C10: a delete(n) with n greater than the number of elements ahead of the
\* cursor fails with an out-of-range error and leaves the content and the
\* rotation offset as they were.
C10_DeleteTooManyChangesNothing ==
    [][ ( /\ Len(script') = Len(script) + 1
          /\ script'[Len(script')].op = "delete"
          /\ EditsThenFix /\ Ref.ok
          /\ script'[Len(script')].n > Len(Ref.doc) - Ref.cursor )
        => ( /\ dexc' = "IndexError"
             /\ content' = content
             /\ rotation' = rotation ) ]_vars

\* C11: after fix_rotation() or complete() the rotation offset is 0 and the
\* call has returned (complete() returning the buffer); a second such call
\* straight after the first changes neither the content nor the rotation.
C11_FixRotationIdempotent ==
    [][ ( /\ Len(script') = Len(script) + 1
          /\ script'[Len(script')].op \in Fixes )
        => ( /\ rotation' = 0
             /\ dexc' = "none"
             /\ (Len(script) > 0 /\ script[Len(script)].op \in Fixes)
                    => (content' = content /\ rotation' = rotation) ) ]_vars

(***************************************************************************)
(* Properties of the annotation set, stated over Spec.                     *)
(***************************************************************************)
SameKey(a, b) == a.name = b.name /\ a.value = b.value

\* same name and value, and the ranges overlap or touch
Mergeable(a, b) == SameKey(a, b) /\ a.start <= b.end /\ b.start <= a.end

\* the ranges overlap and neither contains the other
ProperOverlap(a, b) ==
    /\ SameKey(a, b)
    /\ \/ a.start < b.start /\ b.start < a.end /\ a.end < b.end
       \/ b.start < a.start /\ a.start < b.end /\ b.end < a.end

\* a's range contains b's
Contains(a, b) == SameKey(a, b) /\ a.start <= b.start /\ b.end <= a.end

\* one's start is the other's end
Touching(a, b) == SameKey(a, b) /\ (a.end = b.start \/ b.end = a.start)

Min(x, y) == IF x <= y THEN x ELSE y
Max(x, y) == IF x <= y THEN y ELSE x

Envelope(a, b) ==
    [a EXCEPT !.start = Min(a.start, b.start), !.end = Max(a.end, b.end)]

\* the last call was handler h and has finished
Finished(h) == pc = "idle" /\ op = h

\* slots i and j held the only two annotations of their name and value when
\* the last call began
OnlyPair(i, j) ==
    /\ i # j /\ SameKey(pre[i], pre[j])
    /\ \A k \in 1 .. Len(pre) : SameKey(pre[k], pre[i]) => k \in {i, j}

\* the stored annotations with a's name and value are exactly one, r
StoredOfKeyIs(a, r) ==
    /\ Cardinality({m \in 1 .. Len(data) : SameKey(Stored[m], a)}) = 1
    /\ \E m \in 1 .. Len(data) : Stored[m] = r

\* the annotations with another name or value than a are stored as before
OthersUnchanged(a) ==
    /\ \A k \in 1 .. Len(pre) :
           ~SameKey(pre[k], a) =>
               Cardinality({m \in 1 .. Len(data) : Stored[m] = pre[k]})
               = Cardinality({m \in 1 .. Len(pre) : pre[m] = pre[k]})
    /\ \A m \in 1 .. Len(data) :
           ~SameKey(Stored[m], a) => \E k \in 1 .. Len(pre) : pre[k] = Stored[m]

\* the last call was _resolve_pair on the annotations of slots i and j
PairCallOn(i, j) ==
    /\ Finished("_resolve_pair")
    /\ {args.start, args.end} = {i, j}

\* C3: after resolve() returns, no two stored annotations have the same name
\* and value and ranges that overlap or touch.
C3_ResolveLeavesNoMergeablePair ==
    (Finished("resolve") /\ exc = "none")
    => \A i, j \in 1 .. Len(data) : i # j => ~Mergeable(Stored[i], Stored[j])

\* C4: resolving two stored annotations of equal name and value that overlap
\* without one containing the other replaces both with exactly one
\* annotation from the smaller start to the larger end, and leaves every
\* other stored annotation unchanged.
C4_OverlapResolvesToEnvelope ==
    \A i, j \in 1 .. Len(pre) :
        ( /\ Finished("resolve") \/ PairCallOn(i, j)
          /\ OnlyPair(i, j) /\ ProperOverlap(pre[i], pre[j]) )
        => ( /\ exc = "none"
             /\ StoredOfKeyIs(pre[i], Envelope(pre[i], pre[j]))
             /\ OthersUnchanged(pre[i]) )

\* C5: when one of two stored annotations of equal name and value contains
\* the other, resolving them discards the contained one and keeps the
\* containing one with its start and end unchanged.
C5_ContainmentKeepsContainer ==
    \A i, j \in 1 .. Len(pre) :
        ( /\ Finished("resolve") \/ PairCallOn(i, j)
          /\ OnlyPair(i, j) /\ Contains(pre[i], pre[j]) )
        => (exc = "none" /\ StoredOfKeyIs(pre[i], pre[i]))

\* C6: two annotations of equal name and value whose ranges touch are merged
\* like an overlap: one annotation from the smaller start to the larger end
\* replaces the pair, and no error is raised.
C6_TouchingMergesLikeOverlap ==
    \A i, j \in 1 .. Len(pre) :
        ( /\ Finished("resolve") \/ PairCallOn(i, j)
          /\ OnlyPair(i, j) /\ Touching(pre[i], pre[j]) )
        => (exc = "none" /\ StoredOfKeyIs(pre[i], Envelope(pre[i], pre[j])))

\* C7: annotations are merged only when their name and value are both equal:
\* across annotate() and resolve() calls, an annotation that no other
\* annotation shares its name and value with is never altered, removed or
\* absorbed.
C7_OnlyEqualKeysMerge ==
    (Finished("resolve") \/ Finished("annotate"))
    => \A i \in 1 .. Len(pre) :
           ( /\ \A k \in 1 .. Len(pre) : SameKey(pre[k], pre[i]) => k = i
             /\ op = "annotate" => ~SameKey(args, pre[i]) )
           => \E m \in 1 .. Len(data) : Stored[m] = pre[i]

\* C8: after annotate(start, end, name, value) returns, the set holds an
\* annotation with that name and value whose range covers [start, end], so a
\* query at any position of [start, end] reports (name, value).
C8_AnnotateCoversRange ==
    (Finished("annotate") /\ exc = "none" /\ args.start <= args.end)
    => /\ \E m \in 1 .. Len(data) : Contains(Stored[m], args)
       /\ \A p \in args.start .. args.end :
              \E m \in GetItem(p) : SameKey(Stored[m], args)

\* C12: resolve() on a set whose annotations all have 0 <= start <= end ends
\* without raising an error, whatever the names and ranges stored.
C12_ResolveReturnsNormally ==
    ( /\ Finished("resolve")
      /\ \A k \in 1 .. Len(pre) :
             0 <= pre[k].start /\ pre[k].start <= pre[k].end )
    => exc = "none"

\* the positions of a's range, both bounds included
Range(a) == a.start .. a.end

\* the ranges neither overlap nor touch
Disjoint(a, b) == Range(a) \cap Range(b) = {} /\ ~Touching(a, b)

\* C13: merging two annotations of equal name and value whose ranges are
\* disjoint fails with an error and leaves the stored set and both
\* annotations as they were.
C13_DisjointMergeFails ==
    \A i, j \in 1 .. Len(pre) :
        ( /\ PairCallOn(i, j) /\ i # j
          /\ SameKey(pre[i], pre[j]) /\ Disjoint(pre[i], pre[j]) )
        => (exc = "Exception" /\ Stored = pre)

\* the ranges share a position
Overlapping(a, b) == Range(a) \cap Range(b) # {}

\* a set holding annotations of fields s, as the caller filled it
Filled(s) ==
    [heap |-> s,
     data |-> [k \in 1 .. Len(s) |-> [key |-> k, hash |-> Hash(s[k])]]]

\* the stored annotations an outcome r of _resolve_pair leaves, slot by slot
StoredAfter(r) ==
    LET c == Compact(r.heap, Canonical(r.data), <<>>)
    IN [k \in 1 .. Len(c.data) |-> c.heap[c.data[k].key]]

\* C14: for overlapping annotations a, b of equal name and value, merging
\* (a, b) and merging (b, a) give the same resulting range and the same
\* stored set: what a first call _resolve_pair(a, b) returned and left is
\* what _resolve_pair(b, a) gives on the same set.
C14_MergeIsSymmetric ==
    \A i, j \in 1 .. Len(pre) :
        ( /\ Finished("_resolve_pair") /\ calls = 1
          /\ args.start = i /\ args.end = j /\ i # j
          /\ SameKey(pre[i], pre[j]) /\ Overlapping(pre[i], pre[j]) )
        => \E r \in ResolvePair(Filled(pre), j, i) :
               /\ r.exc = exc
               /\ output = IF r.exc = "none" THEN <<r.heap[r.ret]>> ELSE <<>>
               /\ StoredAfter(r) = Stored

\* C15: the fields of an Annotation never change after it is created: every
\* stored annotation still has the start, end, name and value it had when
\* the set stored it (its stored hash is the hash of its fields).
C15_AnnotationsAreImmutable ==
    \A k \in 1 .. Len(data) : Hash(Stored[k]) = data[k].hash

\* resolve() is about to evaluate annotation_1 == annotation_2
Comparing ==
    pc = "resolve_inner" /\ Len(data) = used /\ it2 < Len(data)

\* C16: == on two Annotations is True exactly when their name and value are
\* equal and their ranges overlap; it is False for equal name and value
\* with ranges that do not overlap, and whenever name or value differ.
C16_EqualOnlyWhenOverlapping ==
    Comparing
    => LET x == annotation_1
           y == data[it2 + 1].key
       IN AnnotationEq(heap, x, y).ret
          <=> (SameKey(heap[x], heap[y]) /\ Overlapping(heap[x], heap[y]))

\* C19: every stored Annotation has start <= end, in every reachable state
\* of an annotation set.
C19_StoredStartLeEnd ==
    \A k \in 1 .. Len(data) : Stored[k].start <= Stored[k].end

\* how many elements of sequence s are a
Count(s, a) == Cardinality({k \in 1 .. Len(s) : s[k] = a})

\* a's range holds position pos, both bounds included
Holds(a, pos) == a.start <= pos /\ pos <= a.end

\* C20: a position query returns exactly the stored annotations whose range
\* holds the position, both bounds included, leaves the set as it was, and
\* returns the same list as the query of the same position just before it.
C20_QueryIsExactAndPure ==
    [][ (op' = "__getitem__" /\ calls' = calls + 1)
        => ( /\ heap' = heap /\ data' = data /\ exc' = "none"
             /\ \A k \in 1 .. Len(output') : Holds(output'[k], args'.start)
             /\ \A k \in 1 .. Len(data) :
                    Holds(Stored[k], args'.start)
                    => Count(output', Stored[k]) = Count(Stored, Stored[k])
             /\ (op = "__getitem__" /\ args = args') => output' = output )
      ]_vars

\* a query, made as the second call, that returns an annotation ending at
\* the position and leaves out the one stored annotation that does not hold it
C20_Witness ==
    /\ op = "__getitem__" /\ calls = 2 /\ pre = Stored
    /\ \E k \in 1 .. Len(output) : output[k].end = args.start
    /\ \E k \in 1 .. Len(data) : ~Holds(Stored[k], args.start)
    /\ Len(output) + 1 = Len(data)

(***************************************************************************)
(* Properties of the Contributors list, stated over SpecList.              *)
(***************************************************************************)
\* the elements of s occur in t, in s's order
RECURSIVE IsSubseq(_, _)
IsSubseq(s, u) ==
    IF s = <<>> THEN TRUE
    ELSE IF u = <<>> THEN FALSE
    ELSE IF Head(s) = Head(u) THEN IsSubseq(Tail(s), Tail(u))
    ELSE IsSubseq(s, Tail(u))

\* the methods Contributors overrides
Overridden ==
    {"__delitem__", "__delslice__", "__setitem__", "__setslice__", "pop",
     "remove", "sort", "reverse"}

\* C17: after any operation a Contributors list accepts, overridden or
\* inherited, the list is no shorter than before and the elements it held
\* are all still there, in the order they had.
C17_ContributorsOnlyGrow ==
    cop.op # "none"
    => (Len(contributors) >= Len(cpre) /\ IsSubseq(cpre, contributors))

\* C18: remove, pop, sort, reverse, item and slice deletion, item and slice
\* assignment leave the list's contents and order as they were and raise no
\* error.
C18_OverriddenAreNoOps ==
    cop.op \in Overridden => (contributors = cpre /\ cexc = "none")

\* [u1, u2] after an attempted remove(u1)
C18_Witness ==
    /\ cop.op = "remove" /\ cop.a1 = "u1"
    /\ cpre = <<"u1", "u2">>
    /\ contributors = <<"u1", "u2">>

(***************************************************************************)
(* Properties of the Blip aggregate, stated over SpecBlip.                 *)
(***************************************************************************)
\* C21: immediately after Blip(creator) is constructed, contributors is
\* exactly the one-element sequence [creator], the document content is
\* empty, the document's annotation set is empty and its rotation offset
\* is 0.
C21_NewBlipIsCreatorAndEmptyDocument ==
    [][ (NoBlip /\ creator' # "none")
        => ( /\ contributors' = <<creator'>>
             /\ content' = <<>>
             /\ data' = <<>>
             /\ rotation' = 0 ) ]_vars

C21_Witness ==
    /\ ~NoBlip
    /\ cop.op = "none"
    /\ contributors = <<creator>>
    /\ content = <<>> /\ data = <<>> /\ rotation = 0

(***************************************************************************)
(* The rotation offset as the cursor, stated over SpecDoc.                 *)
(***************************************************************************)
\* the explicit-cursor reading in which fix_rotation and complete put the
\* cursor back at the start of the document
CursorStep(r, c) ==
    IF c.op \in Fixes THEN [r EXCEPT !.cursor = 0] ELSE RefStep(r, c)

RECURSIVE CursorRun(_, _)
CursorRun(r, s) ==
    IF s = <<>> THEN r ELSE CursorRun(CursorStep(r, Head(s)), Tail(s))

Cursor == CursorRun([doc |-> base, cursor |-> 0, ok |-> TRUE], script)

\* C24: in every state reached from an empty or pre-filled document by
\* retain, insert_characters, insert, delete and fix_rotation calls whose
\* retain and delete counts do not exceed the elements ahead of the cursor,
\* 0 <= rotation <= length of the content, and the last `rotation` stored
\* elements are the elements logically before the cursor, in document
\* order.
C24_RotationTracksCursor ==
    Cursor.ok
    => ( /\ 0 <= rotation
         /\ rotation <= Len(content)
         /\ SubSeq(content, Len(content) - rotation + 1, Len(content))
                = SubSeq(Cursor.doc, 1, Cursor.cursor) )

(***************************************************************************)
(* Properties of Config, stated over SpecCfg.                              *)
(***************************************************************************)
\* C22: load(namespace=X) with a non-empty X overrides the Config's
\* namespace: after the call self.namespace is X and the reader the load
\* starts reads namespace X, also when the Config already had another
\* namespace; NamespaceError is raised only when no namespace argument
\* (none, or an empty one) is given and none was ever set, and then the
\* lock is not acquired.
C22_LoadOverridesNamespace ==
    [][ \A p \in Threads :
          LET \* thread p calls load in this step
              LoadCalled(q) == /\ threads[q].at = "idle"
                               /\ ncalls' = ncalls + 1
                               /\ threads'[q].job = "load"
              \* thread p, inside load, starts the ConfigRW reader
              ReaderStarted(q) == /\ threads[q].at = "load_acquire"
                                  /\ threads'[q].at # "load_acquire"
          IN
          /\ (LoadCalled(p) /\ Truthy(threads'[p].ns))
             => ( /\ namespace' = threads'[p].ns
                  /\ threads'[p].exc = "none" )
          /\ (ReaderStarted(p) /\ Truthy(threads[p].ns))
             => threads'[Len(threads')].ns = threads[p].ns
          /\ (LoadCalled(p) /\ threads'[p].exc = "NamespaceError")
             => ( /\ ~Truthy(threads'[p].ns)
                  /\ ~Truthy(namespace)
                  /\ lock' = lock ) ]_vars

\* the Timer threads; those started and neither cancelled nor run out;
\* those that ran out uncancelled and called save()
Timers == {p \in Threads : threads[p].kind = "timer"}
Scheduled == {p \in Timers : threads[p].at = "wait" /\ ~threads[p].cancelled}
Fired == {p \in Timers : threads[p].job = "fired"}
\* no thread is inside set()
NoneSetting ==
    \A p \in Threads : threads[p].at \notin {"set_acquire", "set_data",
                                              "set_cancel", "set_timer",
                                              "set_release"}

\* C23: with autosave enabled every set() cancels the timer scheduled
\* before it schedules a new one: whatever the interleaving of set() calls
\* and timer expiries, at most one timer is scheduled and not yet fired,
\* and a burst of set() calls completed before the timer runs out triggers
\* exactly one save().
C23_OneAutosavePerBurst ==
    LET \* no timer ran out before a later set() cancelled it
        NoExpiryInBurst == \A p \in Fired : ~threads[p].cancelled
    IN /\ Cardinality(Scheduled) <= 1
       /\ NoExpiryInBurst => Cardinality(Fired) <= 1
       /\ (NoExpiryInBurst /\ Timers # {} /\ Scheduled = {} /\ NoneSetting)
          => Cardinality(Fired) = 1

C23_Witness ==
    \E p, q \in Timers :
        /\ threads[p].cancelled /\ threads[p].at = "done"
        /\ threads[p].job # "fired"
        /\ threads[q].job = "fired" /\ ~threads[q].cancelled
        /\ NoneSetting

(***************************************************************************)
(* Release of the Config lock, stated over SpecCfgFair.                    *)
(***************************************************************************)
\* C25: every acquisition of the Config lock by load(), save(), bleach(),
\* set(), get(), hasKey() or getAll() is eventually followed by its
\* release, also when the load callback calls get() or set() on the same
\* Config and when reading the file fails.
C25_LockEventuallyReleased ==
    \A m \in {"load", "save", "bleach", "set", "get", "hasKey", "getAll"} :
        (lock = m) ~> (lock = "free")
====
